---- MODULE Spec2Model ----
(***************************************************************************)
(* TaskIt agent: the per-request idempotency cache (main/agent/            *)
(* idempotency.py), the tools of make_user_tools (main/agent/              *)
(* agent_tools.py), the conversation memory (main/agent/memory_utils.py)   *)
(* and the agent_endpoint view (main/views/agent_views.py) with its        *)
(* AgentExecutor dispatch loop.                                            *)
(*                                                                         *)
(* Strings are sequences of one-character strings.  An aware datetime is   *)
(* an instant, in seconds since local midnight of the day Asia/Jerusalem   *)
(* leaves daylight saving time.  A result text is a record: status is the  *)
(* value of its "STATUS:" line ("" when the text has none), msg its        *)
(* message, detail the interpolated values.                                *)
(*                                                                         *)
(* The specifications share the actions:                                   *)
(*   Spec          one request's tools, invoked by the caller holding them *)
(*   PairSpec      two requests' tools, invoked in any interleaving        *)
(*   EndpointSpec  requests handled one after the other by agent_endpoint  *)
(*   MemorySpec    stored conversations and the histories loaded from them *)
(*   WindowSpec    one request that follows a conversation of many turns   *)
(*   CanonSpec     timestamp strings and their canonical signature fields  *)
(* agent_endpoint as written stops at its make_user_tools call (see        *)
(* AgentEndpoint); the executor loop and the lines after it are modelled   *)
(* for a request whose tools were built by make_user_tools(user,           *)
(* request_id) as it is defined.                                           *)
(***************************************************************************)
EXTENDS Integers, Sequences, FiniteSets, TLC

\* ------------------------------------------------------------------ bounds
\* tool invocations in a run
MaxCalls == 3
\* stored rows in MemorySpec, and those of them written by other writers
MaxRows == 4
MaxForeign == 1
\* stored rows before the request of WindowSpec
MaxHistory == 14
\* characters in a title given to normalize_title
MaxTitleLen == 3

\* AgentExecutor(..., max_iterations=3, early_stopping_method="force")
MaxIterations == 3

Requests == {1, 2}
Users == {1, 2}

\* ----------------------------------------------------------------- strings
\* the characters that \s and str.strip() take for whitespace
WS == {" ", "\t", "\n", "\r"}

RECURSIVE collapse_ws(_)
\* _WS_RE.sub(" ", s): every maximal run of whitespace becomes one space
collapse_ws(s) ==
    IF s = <<>> THEN <<>>
    ELSE IF Head(s) \in WS
         THEN IF Len(s) > 1 /\ s[2] \in WS
              THEN collapse_ws(Tail(s))
              ELSE <<" ">> \o collapse_ws(Tail(s))
         ELSE <<Head(s)>> \o collapse_ws(Tail(s))

RECURSIVE lstrip(_)
lstrip(s) == IF s # <<>> /\ Head(s) \in WS THEN lstrip(Tail(s)) ELSE s

RECURSIVE rstrip(_)
rstrip(s) ==
    IF s # <<>> /\ s[Len(s)] \in WS THEN rstrip(SubSeq(s, 1, Len(s) - 1)) ELSE s

\* str.strip()
strip(s) == rstrip(lstrip(s))

fold_char(c) == IF c = "A" THEN "a" ELSE IF c = "B" THEN "b" ELSE c

\* str.casefold()
casefold(s) == [i \in 1..Len(s) |-> fold_char(s[i])]

\* normalize_title without the casefold() of line 24
normalize_title_cased(s) ==
    IF s = <<>> THEN <<>>
    ELSE strip(collapse_ws(s))

\* `if not s: return ""`: None and "" are both the empty sequence here
normalize_title(s) ==
    IF s = <<>> THEN <<>>
    ELSE casefold(strip(collapse_ws(s)))

RECURSIVE unify_newlines(_)
\* s.replace("\r\n", "\n").replace("\r", "\n")
unify_newlines(s) ==
    IF s = <<>> THEN <<>>
    ELSE IF Head(s) = "\r"
         THEN IF Len(s) > 1 /\ s[2] = "\n"
              THEN <<"\n">> \o unify_newlines(Tail(Tail(s)))
              ELSE <<"\n">> \o unify_newlines(Tail(s))
         ELSE <<Head(s)>> \o unify_newlines(Tail(s))

BodyWS == WS \cup {"\n", "\r"}

RECURSIVE body_lstrip(_)
body_lstrip(s) == IF s # <<>> /\ Head(s) \in BodyWS THEN body_lstrip(Tail(s)) ELSE s

RECURSIVE body_rstrip(_)
body_rstrip(s) ==
    IF s # <<>> /\ s[Len(s)] \in BodyWS
    THEN body_rstrip(SubSeq(s, 1, Len(s) - 1)) ELSE s

normalize_body(s) ==
    IF s = <<>> THEN <<>>
    ELSE body_rstrip(body_lstrip(unify_newlines(s)))

\* hashlib.sha256(...).hexdigest(): a digest, taken as collision free
sha256_hex(s) == <<"sha256", s>>

\* json.dumps(obj, sort_keys=True, ...): the fields in key order
stable_json(payload) ==
    << <<"request_id", payload.request_id>>, <<"sig", payload.sig>>,
       <<"tool", payload.tool>>, <<"user_id", payload.user_id>>,
       <<"v", payload.v>> >>

\* ---------------------------------------------------------------- results
Result(status, msg, detail) == [status |-> status, msg |-> msg, detail |-> detail]

NoResult == Result("", "<raised>", <<>>)

\* the text returned by IdempotencyContext.run for a key already cached
NoopResult ==
    Result("noop",
           "This exact action was already executed in this request. Do NOT call this tool again.",
           << <<"marker", "STOP">> >>)

\* ------------------------------------------------- IdempotencyContext
EmptyCache == [k \in {} |-> NoResult]

IdempotencyContext(user_id, request_id) ==
    [user_id |-> user_id, request_id |-> request_id, cache |-> EmptyCache]

make_key(c, tool_name, signature) ==
    sha256_hex(stable_json([v |-> 1, user_id |-> c.user_id,
                            request_id |-> c.request_id,
                            tool |-> tool_name, sig |-> signature]))

CacheStore(cache, key, result) ==
    [k \in DOMAIN cache \cup {key} |-> IF k = key THEN result ELSE cache[k]]

\* What one tool call did.  keyed: it went through run; hit: the key was
\* cached; ran: the body (fn) was invoked; raised: an exception left the
\* call; cache, db: the context's cache and the stored records afterwards.
Outcome(keyed, key, hit, ran, raised, result, cache, d) ==
    [keyed |-> keyed, key |-> key, hit |-> hit, ran |-> ran, raised |-> raised,
     result |-> result, cache |-> cache, db |-> d]

NoKey == <<"nokey">>

\* run without line 80: the result is returned and never stored
run_no_store(c, tool_name, signature, fn, d) ==
    LET key == make_key(c, tool_name, signature) IN
    IF key \in DOMAIN c.cache
    THEN Outcome(TRUE, key, TRUE, FALSE, FALSE, NoopResult, c.cache, d)
    ELSE IF fn.raised
         THEN Outcome(TRUE, key, FALSE, TRUE, TRUE, NoResult, c.cache, fn.db)
         ELSE Outcome(TRUE, key, FALSE, TRUE, FALSE, fn.result, c.cache, fn.db)

\* run that marks the key before it invokes fn, so that a raising fn leaves
\* the key behind
run_marks_first(c, tool_name, signature, fn, d) ==
    LET key == make_key(c, tool_name, signature) IN
    IF key \in DOMAIN c.cache
    THEN Outcome(TRUE, key, TRUE, FALSE, FALSE, NoopResult, c.cache, d)
    ELSE IF fn.raised
         THEN Outcome(TRUE, key, FALSE, TRUE, TRUE, NoResult,
                      CacheStore(c.cache, key, NoResult), fn.db)
         ELSE Outcome(TRUE, key, FALSE, TRUE, FALSE, fn.result,
                      CacheStore(c.cache, key, fn.result), fn.db)

\* run with line 71 in place of lines 72-77: a cached key is answered with
\* the result stored under it
run_returns_cached(c, tool_name, signature, fn, d) ==
    LET key == make_key(c, tool_name, signature) IN
    IF key \in DOMAIN c.cache
    THEN Outcome(TRUE, key, TRUE, FALSE, FALSE, c.cache[key], c.cache, d)
    ELSE IF fn.raised
         THEN Outcome(TRUE, key, FALSE, TRUE, TRUE, NoResult, c.cache, fn.db)
         ELSE Outcome(TRUE, key, FALSE, TRUE, FALSE, fn.result,
                      CacheStore(c.cache, key, fn.result), fn.db)

\* run that writes to the cache on a cached key too: the entry is replaced
\* by the text it answers with
run_rewrites_entry(c, tool_name, signature, fn, d) ==
    LET key == make_key(c, tool_name, signature) IN
    IF key \in DOMAIN c.cache
    THEN Outcome(TRUE, key, TRUE, FALSE, FALSE, NoopResult,
                 CacheStore(c.cache, key, NoopResult), d)
    ELSE IF fn.raised
         THEN Outcome(TRUE, key, FALSE, TRUE, TRUE, NoResult, c.cache, fn.db)
         ELSE Outcome(TRUE, key, FALSE, TRUE, FALSE, fn.result,
                      CacheStore(c.cache, key, fn.result), fn.db)

\* IdempotencyContext.run; fn is the outcome of invoking the body on d:
\* [raised, result, db]
run(c, tool_name, signature, fn, d) ==
    LET key == make_key(c, tool_name, signature) IN
    IF key \in DOMAIN c.cache
    THEN Outcome(TRUE, key, TRUE, FALSE, FALSE, NoopResult, c.cache, d)
    ELSE IF fn.raised
         THEN Outcome(TRUE, key, FALSE, TRUE, TRUE, NoResult, c.cache, fn.db)
         ELSE Outcome(TRUE, key, FALSE, TRUE, FALSE, fn.result,
                      CacheStore(c.cache, key, fn.result), fn.db)

\* --------------------------------------------------------------- datetimes
DaySeconds == 86400
HourSeconds == 3600
NoDt == -1

\* An aware datetime is an instant: the seconds elapsed since 00:00 local
\* time of the day on which Asia/Jerusalem leaves daylight saving time.  The
\* day starts at UTC+3; at 02:00 the clocks go back to 01:00, UTC+2, so the
\* wall times from 01:00 to 02:00 occur twice, one hour apart.
IdtOffset == 3
IstOffset == 2
FallBack == 2 * HourSeconds

\* IL_TZ.utcoffset at an instant, in hours
utcoffset(t) == IF t < FallBack THEN IdtOffset ELSE IstOffset

\* the wall clock of IL_TZ at an instant, in seconds since 00:00 of the day
wall(t) == t - (IdtOffset - utcoffset(t)) * HourSeconds

\* timezone.make_aware(naive, IL_TZ) for a naive wall time: fold is 0, a
\* wall time that occurs twice is taken as the first of its two instants
make_aware(w) ==
    IF w < FallBack THEN w ELSE w + (IdtOffset - IstOffset) * HourSeconds

\* what parse_datetime gives for a string it cannot parse: None
NoneDt == [naive |-> TRUE, secs |-> NoDt, off |-> 0]

\* django.utils.dateparse.parse_datetime on a string of the fixed day:
\* <<h, m, s>> is 'HH:MM:SS' (naive), <<h, m, s, off>> is 'HH:MM:SS+off:00'
\* (aware, with a fixed offset in hours), anything else gives None
parse_datetime(str) ==
    IF Len(str) = 3
    THEN [naive |-> TRUE, secs |-> str[1] * HourSeconds + str[2] * 60 + str[3], off |-> 0]
    ELSE IF Len(str) = 4
    THEN [naive |-> FALSE, secs |-> str[1] * HourSeconds + str[2] * 60 + str[3],
          off |-> str[4]]
    ELSE NoneDt

\* naive -> make_aware(dt, IL_TZ); aware -> dt.astimezone(IL_TZ), the same
\* instant
_normalize_incoming_dt(dt) ==
    IF dt = NoneDt THEN NoDt
    ELSE IF dt.naive THEN make_aware(dt.secs)
    ELSE dt.secs + (IdtOffset - dt.off) * HourSeconds

\* dt.astimezone(IL_TZ).replace(second=0, microsecond=0), as
\* <<day, hour, minute>> for YYYY-MM-DDTHH:MM
_canonical_local_minute(dt) ==
    LET w == wall(dt) IN
    <<w \div DaySeconds, (w % DaySeconds) \div HourSeconds,
      ((w % DaySeconds) % HourSeconds) \div 60>>

\* datetime.combine(s.date(), time.min), made aware in IL_TZ
local_midnight(dt) == make_aware((wall(dt) \div DaySeconds) * DaySeconds)

\* dt + timedelta(seconds=delta) for dt in IL_TZ: the wall time moves by
\* delta, and fold is 0
plus_timedelta(dt, delta) == make_aware(wall(dt) + delta)

\* a <= b for two datetimes in IL_TZ: their wall times are compared
wall_le(a, b) == wall(a) <= wall(b)

wall_lt(a, b) == wall(a) < wall(b)

\* ------------------------------------------------------------ stored records
EmptyDb == [tasks |-> {}, events |-> {}, subjects |-> {}, notes |-> {}]

Fn(raised, result, d) == [raised |-> raised, result |-> result, db |-> d]

NextId(table) == Cardinality(table) + 1

TaskTypes == {"daily", "long_term"}

\* ---------------------------------------------------------------- the tools
\* add_task._do
add_task_do(user, title, task_type, fail, d) ==
    IF task_type \notin TaskTypes
    THEN Fn(FALSE, Result("", "Invalid task type. Please choose 'daily' or 'long_term'.",
                          << <<"task_type", task_type>> >>), d)
    ELSE IF fail THEN Fn(TRUE, NoResult, d)
    ELSE LET task == [id |-> NextId(d.tasks), user |-> user, title |-> title,
                      task_type |-> task_type]
         IN Fn(FALSE,
               Result("", IF task_type = "daily" THEN "Daily task created."
                                                 ELSE "Long-term task created.",
                      << <<"title", task.title>> >>),
               [d EXCEPT !.tasks = @ \cup {task}])

add_task(c, user, title, task_type, fail, d) ==
    LET sig == << <<"title", normalize_title(title)>> >>
    IN run(c, "add_task", sig, add_task_do(user, title, task_type, fail, d), d)

EventMatches(d, user, title, s, e, all_day) ==
    {ev \in d.events : /\ ev.user = user /\ ev.title = title /\ ev.start = s
                       /\ ev.end = e /\ ev.all_day = all_day}

\* add_event._do: Event.objects.get_or_create inside transaction.atomic()
add_event_do(user, title, s, e, all_day, desc, fail, d) ==
    LET found == EventMatches(d, user, strip(title), s, e, all_day) IN
    IF fail \/ Cardinality(found) > 1 THEN Fn(TRUE, NoResult, d)
    ELSE IF found = {}
    THEN LET ev == [id |-> NextId(d.events), user |-> user, title |-> strip(title),
                    start |-> s, end |-> e, all_day |-> all_day,
                    description |-> desc]
         IN Fn(FALSE, Result("success", "Event created.",
                             << <<"title", ev.title>>, <<"start", s>>, <<"end", e>>,
                                <<"marker", "STOP">> >>),
               [d EXCEPT !.events = @ \cup {ev}])
    ELSE LET ev == CHOOSE x \in found : TRUE
         IN Fn(FALSE, Result("success", "Event already exists.",
                             << <<"title", ev.title>>, <<"start", s>>, <<"end", e>>,
                                <<"marker", "STOP">> >>), d)

add_event(c, user, title, start, end, all_day, description, fail, d) ==
    LET s0 == _normalize_incoming_dt(parse_datetime(start))
        e0 == _normalize_incoming_dt(parse_datetime(end))
        desc == strip(description)
    IN  IF title = <<>> \/ s0 = NoDt \/ e0 = NoDt
        THEN Outcome(FALSE, NoKey, FALSE, FALSE, FALSE,
                     Result("", "[ERROR] title, start, end are required", <<>>),
                     c.cache, d)
        ELSE LET s == IF all_day THEN local_midnight(s0) ELSE s0
                 e == IF all_day THEN plus_timedelta(local_midnight(s), DaySeconds)
                      ELSE IF wall_le(e0, s0) THEN plus_timedelta(s0, HourSeconds)
                      ELSE e0
                 sig == << <<"end", _canonical_local_minute(e)>>,
                           <<"start", _canonical_local_minute(s)>>,
                           <<"title", normalize_title(title)>> >>
             IN run(c, "add_event", sig,
                    add_event_do(user, title, s, e, all_day, desc, fail, d), d)

\* add_subject._do
add_subject_do(user, title, fail, d) ==
    IF fail THEN Fn(TRUE, NoResult, d)
    ELSE IF \E sb \in d.subjects : sb.user = user /\ sb.title = title
    THEN Fn(FALSE, Result("error", "Subject already exists.", <<>>), d)
    ELSE LET subject == [id |-> NextId(d.subjects), user |-> user, title |-> title]
         IN Fn(FALSE, Result("success", "Subject created.",
                             << <<"id", subject.id>>, <<"marker", "STOP">> >>),
               [d EXCEPT !.subjects = @ \cup {subject}])

add_subject(c, user, title, fail, d) ==
    LET sig == << <<"title", normalize_title(title)>> >>
    IN run(c, "add_subject", sig, add_subject_do(user, title, fail, d), d)

\* add_note._do: Subject.objects.get raises DoesNotExist (caught) for no
\* match and MultipleObjectsReturned (not caught) for several
add_note_do(user, subject_title, title, body, fail, d) ==
    LET found == {sb \in d.subjects : sb.user = user /\ sb.title = subject_title} IN
    IF fail \/ Cardinality(found) > 1 THEN Fn(TRUE, NoResult, d)
    ELSE IF found = {}
    THEN Fn(FALSE, Result("error", "Subject not found.", <<>>), d)
    ELSE LET subject == CHOOSE sb \in found : TRUE
             note == [id |-> NextId(d.notes), subject |-> subject.id,
                      title |-> title, content |-> body]
         IN Fn(FALSE, Result("success", "Note created.",
                             << <<"subject", subject.title>>, <<"id", note.id>>,
                                <<"marker", "STOP">> >>),
               [d EXCEPT !.notes = @ \cup {note}])

add_note(c, user, subject_title, title, body, fail, d) ==
    LET sig == << <<"body_hash", sha256_hex(normalize_body(body))>>,
                  <<"subject_title", normalize_title(subject_title)>>,
                  <<"title", normalize_title(title)>> >>
    IN run(c, "add_note", sig, add_note_do(user, subject_title, title, body, fail, d), d)

\* the fixed day of the model, as a date
Today == 0

\* get_tasks: a date is a day number, NoDt when strptime raises ValueError.
\* Every task of the model carries the fixed day in its date field.
\* get_tasks with Task.objects.all() in place of line 148
get_tasks_of_all_users(c, user, start_date, end_date, fail, d) ==
    IF start_date = NoDt \/ end_date = NoDt
    THEN Outcome(FALSE, NoKey, FALSE, TRUE, FALSE,
                 Result("", "[ERROR] Invalid date format. Use 'YYYY-MM-DD'.", <<>>),
                 c.cache, d)
    ELSE IF fail THEN Outcome(FALSE, NoKey, FALSE, TRUE, TRUE, NoResult, c.cache, d)
    ELSE LET start_d == IF end_date < start_date THEN end_date ELSE start_date
             end_d == IF end_date < start_date THEN start_date ELSE end_date
             qs == {tk \in d.tasks : start_d <= Today /\ Today <= end_d}
         IN Outcome(FALSE, NoKey, FALSE, TRUE, FALSE,
                    IF qs = {} THEN Result("", "No tasks found", <<>>)
                    ELSE Result("", "Tasks for", << <<"rows", qs>> >>),
                    c.cache, d)

get_tasks(c, user, start_date, end_date, fail, d) ==
    IF start_date = NoDt \/ end_date = NoDt
    THEN Outcome(FALSE, NoKey, FALSE, TRUE, FALSE,
                 Result("", "[ERROR] Invalid date format. Use 'YYYY-MM-DD'.", <<>>),
                 c.cache, d)
    ELSE IF fail THEN Outcome(FALSE, NoKey, FALSE, TRUE, TRUE, NoResult, c.cache, d)
    ELSE LET start_d == IF end_date < start_date THEN end_date ELSE start_date
             end_d == IF end_date < start_date THEN start_date ELSE end_date
             qs == {tk \in d.tasks : tk.user = user /\ start_d <= Today /\ Today <= end_d}
         IN Outcome(FALSE, NoKey, FALSE, TRUE, FALSE,
                    IF qs = {} THEN Result("", "No tasks found", <<>>)
                    ELSE Result("", "Tasks for", << <<"rows", qs>> >>),
                    c.cache, d)

\* get_events: the window [start, end) against the user's events
get_events(c, user, start, end, fail, d) ==
    LET s0 == _normalize_incoming_dt(parse_datetime(start))
        e0 == _normalize_incoming_dt(parse_datetime(end))
    IN  IF s0 = NoDt \/ e0 = NoDt
        THEN Outcome(FALSE, NoKey, FALSE, TRUE, FALSE,
                     Result("", "[ERROR] Invalid datetime/date format. Use ISO or 'YYYY-MM-DD'.",
                            <<>>), c.cache, d)
        ELSE IF fail THEN Outcome(FALSE, NoKey, FALSE, TRUE, TRUE, NoResult, c.cache, d)
        ELSE LET start_local == IF wall_lt(e0, s0) THEN e0 ELSE s0
                 end_local == IF wall_lt(e0, s0) THEN s0 ELSE e0
                 qs == {ev \in d.events : /\ ev.user = user /\ ev.start < end_local
                                          /\ ev.end > start_local}
             IN Outcome(FALSE, NoKey, FALSE, TRUE, FALSE,
                        IF qs = {} THEN Result("", "No events found", <<>>)
                        ELSE Result("", "Events:", << <<"rows", qs>> >>),
                        c.cache, d)

\* analyze_stats: the statistics come from main.stats_utils
analyze_stats(c, user, query, fail, d) ==
    IF fail THEN Outcome(FALSE, NoKey, FALSE, TRUE, TRUE, NoResult, c.cache, d)
    ELSE Outcome(FALSE, NoKey, FALSE, TRUE, FALSE,
                 Result("", "Your latest completion rate is", << <<"query", query>> >>),
                 c.cache, d)

\* search_knowledge: docs is what retriever.invoke(query) yields under the
\* filter {"user_id": user.id}
\* search_knowledge without lines 368-369: an empty retrieval is listed
search_knowledge_lists_empty(c, user, query, docs, fail, d) ==
    IF fail THEN Outcome(FALSE, NoKey, FALSE, TRUE, TRUE, NoResult, c.cache, d)
    ELSE Outcome(FALSE, NoKey, FALSE, TRUE, FALSE,
                 Result("", "Relevant notes:", << <<"docs", docs>> >>), c.cache, d)

search_knowledge(c, user, query, docs, fail, d) ==
    IF fail THEN Outcome(FALSE, NoKey, FALSE, TRUE, TRUE, NoResult, c.cache, d)
    ELSE Outcome(FALSE, NoKey, FALSE, TRUE, FALSE,
                 IF docs = <<>> THEN Result("", "No relevant notes found.", <<>>)
                 ELSE Result("", "Relevant notes:", << <<"docs", docs>> >>),
                 c.cache, d)

\* ------------------------------------------------------- tool invocations
Call(tool, vals) == [tool |-> tool, vals |-> vals]

Garbage == <<>>
T0900 == <<9, 0, 0>>
T090030 == <<9, 0, 30>>
T0930 == <<9, 30, 0>>

\* the invocations the language model may request, by the kind of record
\* they are about
TaskCalls ==
    {Call("add_task", <<<<"a">>, "daily">>), Call("add_task", <<<<" ", "A">>, "daily">>),
     Call("add_task", <<<<"a">>, "weekly">>), Call("add_task", <<<<"a">>, "long_term">>),
     Call("get_tasks", <<Today, Today>>), Call("analyze_stats", <<"week">>)}

EventCalls ==
    {Call("add_event", <<<<"a">>, Garbage, T0930, FALSE, <<>>>>),
     Call("add_event", <<<<"a">>, T0900, T0930, FALSE, <<>>>>),
     Call("add_event", <<<<"a">>, T090030, T0930, FALSE, <<>>>>),
     Call("add_event", <<<<"a">>, T0900, T0930, TRUE, <<>>>>),
     Call("get_events", <<T0900, T0930>>)}

NoteCalls ==
    {Call("add_subject", <<<<"a">>>>), Call("add_subject", <<<<" ", "A">>>>),
     Call("add_note", <<<<"a">>, <<"b">>, <<"x">>>>),
     Call("search_knowledge", <<"q">>)}

MixedCalls ==
    {Call("add_task", <<<<"a">>, "daily">>), Call("add_subject", <<<<"a">>>>),
     Call("add_note", <<<<"a">>, <<"b">>, <<"x">>>>), Call("get_tasks", <<Today, Today>>)}

Menus == {TaskCalls, EventCalls, NoteCalls, MixedCalls}

\* what the collaborators do during one invocation: storage or retrieval
\* raises ("fail"), the retriever finds nothing ("nodocs"), or all is well
Envs == {"ok", "fail", "nodocs"}

\* the documents of the vector store: one note of every user
VectorStore == << [user_id |-> 1], [user_id |-> 2] >>

Docs(user, env) ==
    LET filter(doc) == doc.user_id = user
    IN IF env = "nodocs" THEN <<>> ELSE SelectSeq(VectorStore, filter)

\* the registry returned by make_user_tools, applied to one invocation
Invoke(c, user, call, env, d) ==
    LET a == call.vals
        fail == (env = "fail")
    IN CASE call.tool = "add_task" -> add_task(c, user, a[1], a[2], fail, d)
         [] call.tool = "add_event" -> add_event(c, user, a[1], a[2], a[3], a[4], a[5], fail, d)
         [] call.tool = "get_tasks" -> get_tasks(c, user, a[1], a[2], fail, d)
         [] call.tool = "get_events" -> get_events(c, user, a[1], a[2], fail, d)
         [] call.tool = "analyze_stats" -> analyze_stats(c, user, a[1], fail, d)
         [] call.tool = "add_subject" -> add_subject(c, user, a[1], fail, d)
         [] call.tool = "add_note" -> add_note(c, user, a[1], a[2], a[3], fail, d)
         [] call.tool = "search_knowledge" ->
                search_knowledge(c, user, a[1], Docs(user, env), fail, d)

\* ---------------------------------------------------- conversation memory
\* How storage stamps created_at on a new row.  "fine": every row gets a
\* later stamp than the row stored before it.  "coarse": the rows of one
\* bulk_create get the same stamp (a clock or a column that does not tell
\* the two inserts apart).
Clocks == {"fine", "coarse"}

LastStamp(rows) == IF rows = <<>> THEN 0 ELSE rows[Len(rows)].created_at

\* an AgentChatMessage row; id is the auto-increment primary key
AgentChatMessage(id, user, session_id, role, content, created_at) ==
    [id |-> id, user |-> user, session_id |-> session_id, role |-> role,
     content |-> content, created_at |-> created_at]

\* persist_turn that rewrites the newest stored row instead of adding to it
persist_turn_rewrites(rows, user, session_id, user_text, ai_text, clk) ==
    LET kept == IF rows = <<>> THEN rows ELSE SubSeq(rows, 1, Len(rows) - 1)
        t1 == LastStamp(rows) + 1
        t2 == IF clk = "coarse" THEN t1 ELSE t1 + 1
    IN kept \o << AgentChatMessage(Len(kept) + 1, user, session_id, "human", user_text, t1),
                  AgentChatMessage(Len(kept) + 2, user, session_id, "ai", ai_text, t2) >>

\* persist_turn: one bulk_create of a human row and an ai row, in that order
persist_turn(rows, user, session_id, user_text, ai_text, clk) ==
    LET t1 == LastStamp(rows) + 1
        t2 == IF clk = "coarse" THEN t1 ELSE t1 + 1
    IN rows \o << AgentChatMessage(Len(rows) + 1, user, session_id, "human", user_text, t1),
                  AgentChatMessage(Len(rows) + 2, user, session_id, "ai", ai_text, t2) >>

\* a LangChain message built from a row; id recalls the row it came from
Message(type, row) == [type |-> type, content |-> row.content, id |-> row.id]

RECURSIVE _rows_to_chat_history_strict(_)
\* the strict reading of the else branch: an unknown role ends the
\* conversion, and nothing after it is added
_rows_to_chat_history_strict(rows) ==
    IF rows = <<>> THEN <<>>
    ELSE LET row == Head(rows) IN
         IF row.role = "human"
         THEN <<Message("human", row)>> \o _rows_to_chat_history_strict(Tail(rows))
         ELSE IF row.role = "ai"
         THEN <<Message("ai", row)>> \o _rows_to_chat_history_strict(Tail(rows))
         ELSE IF row.role = "system"
         THEN <<Message("system", row)>> \o _rows_to_chat_history_strict(Tail(rows))
         ELSE <<>>

RECURSIVE _rows_to_chat_history(_)
_rows_to_chat_history(rows) ==
    IF rows = <<>> THEN <<>>
    ELSE LET row == Head(rows)
             rest == _rows_to_chat_history(Tail(rows))
         IN IF row.role = "human" THEN <<Message("human", row)>> \o rest
            ELSE IF row.role = "ai" THEN <<Message("ai", row)>> \o rest
            ELSE IF row.role = "system" THEN <<Message("system", row)>> \o rest
            ELSE rest

\* AgentChatMessage.objects.filter(user=user, session_id=session_id)
\* .filter(session_id=session_id): the rows of the session, of any user
filter_session_any_user(rows, user, session_id) ==
    {rows[i] : i \in {j \in 1..Len(rows) : rows[j].session_id = session_id}}

\* .filter(user=user, session_id=session_id)
filter_session(rows, user, session_id) ==
    {rows[i] : i \in {j \in 1..Len(rows) : /\ rows[j].user = user
                                            /\ rows[j].session_id = session_id}}

RECURSIVE order_by_created_at_desc(_)
\* .order_by("-created_at"): every sequence of the rows with created_at
\* never increasing; the database is free to order rows with equal stamps
order_by_created_at_desc(S) ==
    IF S = {} THEN {<<>>}
    ELSE LET top == {x \in S : \A y \in S : y.created_at <= x.created_at}
         IN UNION {{<<x>> \o rest : rest \in order_by_created_at_desc(S \ {x})} :
                   x \in top}

\* qs[:n]
slice(seq, n) == SubSeq(seq, 1, IF Len(seq) < n THEN Len(seq) ELSE n)

\* list(qs)[::-1]
reversed(seq) == [i \in 1..Len(seq) |-> seq[Len(seq) + 1 - i]]

\* load_history_for_user(user, session_id, max_messages=40)
DefaultMaxMessages == 40

\* load_history_for_user: the results it can return, one for each order the
\* database may give the rows in
load_history_for_user(rows, user, session_id, max_messages) ==
    {[rows_in_order |-> reversed(slice(qs, max_messages)),
      history |-> _rows_to_chat_history(reversed(slice(qs, max_messages)))] :
     qs \in order_by_created_at_desc(filter_session(rows, user, session_id))}

\* ------------------------------------------------- the session of a request
\* request.POST and request.GET hold the parameters that were sent, as
\* <<name, value>> pairs; a parameter sent without a value has the value ""
SessionValues == {"", "s1", "s2"}

QueryDicts == {{}} \cup {{<<"session_id", v>>} : v \in SessionValues}

has_key(qd, key) == \E p \in qd : p[1] = key

value_of(qd, key) == (CHOOSE p \in qd : p[1] = key)[2]

\* the truth value of QueryDict.get(key): None and "" are falsy
truthy(qd, key) == has_key(qd, key) /\ value_of(qd, key) # ""

DEFAULT_SESSION_ID == "default"

get_session_id_from_request(POST, GET) ==
    IF truthy(POST, "session_id") THEN value_of(POST, "session_id")
    ELSE IF truthy(GET, "session_id") THEN value_of(GET, "session_id")
    ELSE DEFAULT_SESSION_ID

\* agent_history: the rows of the user and the session, by created_at, as
\* the response's messages; rows recalls the rows they were made from
agent_history(table, user, POST, GET) ==
    {[session_id |-> get_session_id_from_request(POST, GET),
      rows |-> reversed(qs),
      messages |-> [i \in 1..Len(qs) |->
                       [role |-> reversed(qs)[i].role, content |-> reversed(qs)[i].content,
                        created_at |-> reversed(qs)[i].created_at]]] :
     qs \in order_by_created_at_desc(
               filter_session(table, user, get_session_id_from_request(POST, GET)))}

\* build_memory_for_user(user, session_id, window_size=6)
WindowSize == 6

ConversationBufferWindowMemory(k, chat_memory) == [k |-> k, chat_memory |-> chat_memory]

NoMemory == ConversationBufferWindowMemory(0, <<>>)

last_messages(msgs, n) ==
    IF Len(msgs) <= n THEN msgs ELSE SubSeq(msgs, Len(msgs) - n + 1, Len(msgs))

\* a window of k messages
buffer_as_messages_k(memory) ==
    IF memory.k > 0 THEN last_messages(memory.chat_memory, memory.k) ELSE <<>>

\* ConversationBufferWindowMemory.buffer_as_messages:
\* chat_memory.messages[-k * 2:] if k > 0 else []
buffer_as_messages(memory) ==
    IF memory.k > 0 THEN last_messages(memory.chat_memory, memory.k * 2) ELSE <<>>

build_memory_for_user(rows, user, session_id, window_size) ==
    {ConversationBufferWindowMemory(window_size, o.history) :
     o \in load_history_for_user(rows, user, session_id, DefaultMaxMessages)}

\* ------------------------------------------------------------------ state
VARIABLES
    pc,            \* per request: where its caller stands
    ctx,           \* per request: the IdempotencyContext of its tools
    uuids,         \* how many uuid4() values were drawn
    db,            \* the stored tasks, events, subjects and notes
    messages,      \* the AgentChatMessage rows, in insertion order
    loop,          \* per request: the AgentExecutor run and the reply
    last,          \* the latest tool invocation and what it did
    invokedKeys,   \* per request: the keys whose fn was invoked
    returnedKeys,  \* per request: the keys whose fn returned
    seen,          \* per request: the invocations made so far
    executed,      \* per request: the invocations whose body ran and returned
    nCalls,        \* tool invocations made in all requests
    menu,          \* the invocations the language model asks for in this run
    clock,         \* how storage stamps created_at in this run
    loaded,        \* the latest load_history_for_user call and its result
    canon,         \* two timestamp strings and what they were normalized to
    norm,          \* two titles and what they were normalized to
    pending,       \* per request: the body that stands between its two storage statements
    http           \* per request: its POST and GET parameters; the latest agent_history call

vars == <<pc, ctx, uuids, db, messages, loop, last, invokedKeys, returnedKeys,
          seen, executed, nCalls, menu, clock, loaded, canon, norm, pending, http>>

\* request identities a caller may pass to make_user_tools; NoRequestId is
\* a falsy one (None or "")
NoRequestId == <<"none", 0>>
RequestIdArgs == {NoRequestId, <<"given", 1>>}

\* uuid4().hex: a value never drawn before
uuid4_hex(n) == <<"uuid4", n + 1>>

Sessions == {"default"}

\* the texts an AgentExecutor run can put in result["output"]
RawStopText == <<"Agent stopped due to max iterations", ".">>
FinalText == <<"final answer">>
DoneText == <<"Done">>
NoText == <<>>

\* str.startswith
startswith(s, prefix) ==
    Len(s) >= Len(prefix) /\ SubSeq(s, 1, Len(prefix)) = prefix

NoCtx == IdempotencyContext(0, NoRequestId)

NoLoop == [user |-> 0, session_id |-> "default", memory |-> NoMemory,
           chat_history |-> <<>>, iterations |-> 0, output |-> NoText,
           reply |-> NoText]

NoNorm == [a |-> <<>>, b |-> <<>>, title_a |-> <<>>, title_b |-> <<>>,
          again_a |-> <<>>, sig_a |-> <<>>, sig_b |-> <<>>]

NoCanon == [a |-> <<>>, b |-> <<>>, dt_a |-> NoDt, dt_b |-> NoDt,
            field_a |-> <<>>, field_b |-> <<>>]

NoLoaded == [user |-> 0, session_id |-> "default", max_messages |-> 0,
             table |-> <<>>, rows_in_order |-> <<>>, history |-> <<>>]

NoLast == [req |-> 0, call |-> Call("none", <<>>), keyed |-> FALSE, key |-> NoKey,
           hit |-> FALSE, ran |-> FALSE, raised |-> FALSE, result |-> NoResult,
           repeat |-> FALSE, executed_before |-> FALSE, invoked_before |-> FALSE, returned_before |-> FALSE,
           cache_changed |-> FALSE, db_changed |-> FALSE, via |-> "none",
           round |-> 0, retrieved |-> <<>>]

\* the parameters of a request not yet received, and no agent_history call
NoQuery == [received |-> FALSE, POST |-> {}, GET |-> {}]

NoAsked == [user |-> 0, POST |-> {}, GET |-> {}, table |-> <<>>,
            response |-> [session_id |-> DEFAULT_SESSION_ID, rows |-> <<>>,
                          messages |-> <<>>]]

\* no body of the request is under way
NoPending == [call |-> Call("none", <<>>), creates |-> FALSE, seen_db |-> EmptyDb]

\* The state before any request: the requests of `active` may arrive, and
\* the language model asks for the invocations of one of `menus`
InitWith(active, menus, clocks) ==
    /\ pc = [r \in Requests |-> IF r \in active THEN "free" ELSE "off"]
    /\ ctx = [r \in Requests |-> NoCtx]
    /\ uuids = 0
    /\ db = EmptyDb
    /\ messages = <<>>
    /\ loop = [r \in Requests |-> NoLoop]
    /\ last = NoLast
    /\ invokedKeys = [r \in Requests |-> {}]
    /\ returnedKeys = [r \in Requests |-> {}]
    /\ seen = [r \in Requests |-> {}]
    /\ executed = [r \in Requests |-> {}]
    /\ nCalls = 0
    /\ menu \in menus
    /\ clock \in clocks
    /\ loaded = NoLoaded
    /\ canon = NoCanon
    /\ norm = NoNorm
    /\ pending = [r \in Requests |-> NoPending]
    /\ http = [query |-> [r \in Requests |-> NoQuery], asked |-> NoAsked]

\* ---------------------------------------------------------------- actions
\* make_user_tools(user, request_id), called with both arguments
make_user_tools(user, request_id, n) ==
    IdempotencyContext(user, IF request_id = NoRequestId THEN uuid4_hex(n)
                             ELSE request_id)

MakeUserTools(r, u, rid) ==
    /\ pc[r] = "free"
    /\ ctx' = [ctx EXCEPT ![r] = make_user_tools(u, rid, uuids)]
    /\ uuids' = IF rid = NoRequestId THEN uuids + 1 ELSE uuids
    /\ pc' = [pc EXCEPT ![r] = "tools"]
    /\ UNCHANGED <<db, messages, loop, last, invokedKeys, returnedKeys, seen, executed, nCalls, menu, clock, loaded, canon, norm, pending, http>>

\* agent_endpoint as written: line 97 calls make_user_tools(request.user)
\* with one argument, make_user_tools takes two, and the TypeError leaves the
\* view before a context, a memory or an executor exists
AgentEndpoint(r, u, sess) ==
    /\ pc[r] = "free"
    /\ pc' = [pc EXCEPT ![r] = "typeerror"]
    /\ loop' = [loop EXCEPT ![r] = [NoLoop EXCEPT !.user = u, !.session_id = sess]]
    /\ UNCHANGED <<ctx, uuids, db, messages, last, invokedKeys, returnedKeys, seen,
                   executed, nCalls, menu, clock, loaded, canon, norm, pending, http>>

\* agent_endpoint lines 98-101 for a request whose tools were built: the
\* memory is built from the stored rows, and the tools and the memory go to
\* a new AgentExecutor, which is invoked and reads {chat_history} for the
\* prompt from the memory
ExecutorInvoke(r, sess) ==
    /\ pc[r] = "tools"
    /\ seen[r] = {}
    /\ pc' = [pc EXCEPT ![r] = "reasoning"]
    /\ \E memory \in build_memory_for_user(messages, ctx[r].user_id, sess, WindowSize) :
           loop' = [loop EXCEPT ![r] = [NoLoop EXCEPT !.user = ctx[r].user_id,
                                                      !.session_id = sess,
                                                      !.memory = memory,
                                                      !.chat_history =
                                                          buffer_as_messages(memory)]]
    /\ UNCHANGED <<ctx, uuids, db, messages, last, invokedKeys, returnedKeys, seen,
                   executed, nCalls, menu, clock, loaded, canon, norm, pending, http>>

\* the ceiling compared with <= : one round more
should_continue_inclusive(iterations) == iterations <= MaxIterations

\* AgentExecutor._should_continue with max_iterations=3
should_continue(iterations) == iterations < MaxIterations

\* the model answers with action requests: Reasoning -> Executing
ModelRequestsActions(r) ==
    /\ pc[r] = "reasoning"
    /\ should_continue(loop[r].iterations)
    /\ pc' = [pc EXCEPT ![r] = "executing"]
    /\ UNCHANGED <<ctx, uuids, db, messages, loop, last, invokedKeys, returnedKeys,
                   seen, executed, nCalls, menu, clock, loaded, canon, norm, pending, http>>

\* the model answers with a final text: Reasoning -> Responding
ModelFinalAnswer(r) ==
    /\ pc[r] = "reasoning"
    /\ should_continue(loop[r].iterations)
    /\ pc' = [pc EXCEPT ![r] = "responding"]
    /\ loop' = [loop EXCEPT ![r].output = FinalText]
    /\ UNCHANGED <<ctx, uuids, db, messages, last, invokedKeys, returnedKeys, seen,
                   executed, nCalls, menu, clock, loaded, canon, norm, pending, http>>

\* the results of the round go back to the model: Executing -> Reasoning
RoundDone(r) ==
    /\ pc[r] = "executing"
    /\ pc' = [pc EXCEPT ![r] = "reasoning"]
    /\ loop' = [loop EXCEPT ![r].iterations = @ + 1]
    /\ UNCHANGED <<ctx, uuids, db, messages, last, invokedKeys, returnedKeys, seen,
                   executed, nCalls, menu, clock, loaded, canon, norm, pending, http>>

\* early_stopping_method="force": the ceiling is reached without an answer
ForceStop(r) ==
    /\ pc[r] = "reasoning"
    /\ ~should_continue(loop[r].iterations)
    /\ pc' = [pc EXCEPT ![r] = "responding"]
    /\ loop' = [loop EXCEPT ![r].output = RawStopText]
    /\ UNCHANGED <<ctx, uuids, db, messages, last, invokedKeys, returnedKeys, seen,
                   executed, nCalls, menu, clock, loaded, canon, norm, pending, http>>

\* agent_endpoint lines 106-110: ai_output is read from result["output"]
\* before the raw text is replaced in result, and is what lines 111-112 use
ai_output_of(output) ==
    LET ai_output == output
        result_output == IF startswith(output, <<RawStopText[1]>>) THEN DoneText
                         ELSE output
    IN ai_output

UserMessage == <<"message">>

\* agent_endpoint lines 106-112
EndpointFinish(r) ==
    /\ pc[r] = "responding"
    /\ LET ai_output == ai_output_of(loop[r].output) IN
       /\ messages' = persist_turn(messages, loop[r].user, loop[r].session_id,
                                   UserMessage, ai_output, clock)
       /\ loop' = [loop EXCEPT ![r].reply = ai_output]
    /\ pc' = [pc EXCEPT ![r] = "stopped"]
    /\ UNCHANGED <<ctx, uuids, db, last, invokedKeys, returnedKeys, seen, executed, nCalls, menu, clock, loaded, canon, norm, pending, http>>

\* `_cache: Dict[str, Any] = {}` at class level: one dict for all contexts
CacheShared(r) ==
    LET keys == UNION {DOMAIN ctx[q].cache : q \in Requests}
    IN [k \in keys |-> ctx[CHOOSE q \in Requests : k \in DOMAIN ctx[q].cache].cache[k]]

\* `_cache: Dict[str, Any] = field(default_factory=dict)`: every context has
\* a dict of its own, and run reads and writes that one
CacheOf(r) == ctx[r].cache

\* One invocation of a tool of the registry, in the context of request r
Invocation(r, call, env, via) ==
    /\ nCalls < MaxCalls
    /\ \E o \in {Invoke([ctx[r] EXCEPT !.cache = CacheOf(r)], ctx[r].user_id, call,
                       env, db)} :
       /\ ctx' = [ctx EXCEPT ![r].cache = o.cache]
       /\ db' = o.db
       /\ last' = [req |-> r, call |-> call, keyed |-> o.keyed, key |-> o.key,
                   hit |-> o.hit, ran |-> o.ran, raised |-> o.raised,
                   result |-> o.result,
                   repeat |-> call \in seen[r],
                   executed_before |-> call \in executed[r],
                   invoked_before |-> o.key \in invokedKeys[r],
                   returned_before |-> o.key \in returnedKeys[r],
                   cache_changed |-> o.cache # CacheOf(r),
                   db_changed |-> o.db # db,
                   via |-> via,
                   round |-> IF via = "loop" THEN loop[r].iterations + 1 ELSE 0,
                   retrieved |-> IF call.tool = "search_knowledge" /\ env # "fail"
                                 THEN Docs(ctx[r].user_id, env) ELSE <<>>]
       /\ invokedKeys' = [invokedKeys EXCEPT ![r] =
                              IF o.keyed /\ o.ran THEN @ \cup {o.key} ELSE @]
       /\ returnedKeys' = [returnedKeys EXCEPT ![r] =
                              IF o.keyed /\ o.ran /\ ~o.raised THEN @ \cup {o.key} ELSE @]
       /\ pc' = [pc EXCEPT ![r] = IF o.raised /\ via = "loop" THEN "aborted" ELSE @]
       /\ executed' = [executed EXCEPT ![r] =
                           IF o.ran /\ ~o.raised THEN @ \cup {call} ELSE @]
    /\ seen' = [seen EXCEPT ![r] = @ \cup {call}]
    /\ nCalls' = nCalls + 1
    /\ UNCHANGED <<uuids, messages, loop, menu, clock, loaded, canon, norm, pending, http>>

\* a caller that holds the tools of make_user_tools invokes one; an
\* exception goes to that caller
DirectToolCall(r, call, env) ==
    /\ pc[r] = "tools"
    /\ Invocation(r, call, env, "direct")

\* the executor runs a requested action during a round; an exception that
\* leaves the tool leaves AgentExecutor.invoke and agent_endpoint too
LoopToolCall(r, call, env) ==
    /\ pc[r] = "executing"
    /\ Invocation(r, call, env, "loop")

\* one request's tools, driven by a caller
Init == InitWith({1}, Menus, {"fine"})

Next ==
    \/ \E r \in Requests, u \in Users, rid \in RequestIdArgs : MakeUserTools(r, u, rid)
    \/ \E r \in Requests, call \in menu, env \in Envs : DirectToolCall(r, call, env)

Spec == Init /\ [][Next]_vars

\* two requests' tools, driven by their callers in any interleaving
PairCalls ==
    {Call("add_task", <<<<"a">>, "daily">>), Call("add_subject", <<<<"a">>>>),
     Call("add_event", <<<<"a">>, T0900, T0930, FALSE, <<>>>>)}

PairInit == InitWith(Requests, {PairCalls}, {"fine"})

PairSpec == PairInit /\ [][Next]_vars

\* two requests' tools that create, read and retrieve
OwnerCalls ==
    {Call("add_task", <<<<"a">>, "daily">>), Call("add_subject", <<<<"a">>>>),
     Call("get_tasks", <<Today, Today>>), Call("search_knowledge", <<"q">>)}

OwnerInit == InitWith(Requests, {OwnerCalls}, {"fine"})

OwnerSpec == OwnerInit /\ [][Next]_vars

\* add_event on the day the clocks go back: times given with and without
\* an offset, ends after, at and before their starts, and all-day events
ClockChangeCalls ==
    {Call("add_event", <<<<"a">>, T0900, T0930, FALSE, <<>>>>),
     Call("add_event", <<<<"a">>, T0930, T0900, FALSE, <<>>>>),
     Call("add_event", <<<<"a">>, T0900, T0900, FALSE, <<>>>>),
     Call("add_event", <<<<"a">>, <<0, 30, 0>>, <<0, 15, 0>>, FALSE, <<>>>>),
     Call("add_event", <<<<"a">>, <<1, 45, 0, 2>>, <<1, 50, 0, 3>>, FALSE, <<>>>>),
     Call("add_event", <<<<"a">>, T0900, T0930, TRUE, <<>>>>),
     Call("add_event", <<<<"a">>, T0930, T0900, TRUE, <<>>>>)}

ClockChangeInit == InitWith({1}, {ClockChangeCalls}, {"fine"})

ClockChangeSpec == ClockChangeInit /\ [][Next]_vars

\* the invocations of a run of the dispatch loop
LoopCalls ==
    {Call("add_task", <<<<"a">>, "daily">>), Call("search_knowledge", <<"q">>)}

EndpointInit == InitWith(Requests, {LoopCalls}, Clocks)

\* the requests before r are over: executed, or left by an exception
Arrives(r) == \A q \in Requests : q < r => pc[q] \in {"stopped", "aborted", "typeerror"}

\* requests handled one after the other by agent_endpoint and its
\* AgentExecutor
EndpointNext ==
    \/ \E r \in Requests, u \in Users, sess \in Sessions :
           Arrives(r) /\ AgentEndpoint(r, u, sess)
    \/ \E r \in Requests, u \in Users, rid \in RequestIdArgs :
           Arrives(r) /\ MakeUserTools(r, u, rid)
    \/ \E r \in Requests, sess \in Sessions : ExecutorInvoke(r, sess)
    \/ \E r \in Requests : ModelRequestsActions(r)
    \/ \E r \in Requests : ModelFinalAnswer(r)
    \/ \E r \in Requests : RoundDone(r)
    \/ \E r \in Requests : ForceStop(r)
    \/ \E r \in Requests : EndpointFinish(r)
    \/ \E r \in Requests, call \in menu, env \in Envs : LoopToolCall(r, call, env)

EndpointSpec == EndpointInit /\ [][EndpointNext]_vars

\* ------------------------------------------------- the stored conversation
StoredSessions == {"default", "s1"}

\* roles of rows that persist_turn does not write: a system row, and a row
\* of a role that _rows_to_chat_history does not know
ForeignRoles == {"system", "tool"}

ForeignText == <<"trace">>

\* a request of the conversation that was completed before the ones of
\* Requests arrive: its persist_turn
EarlierRequest(u, sess, cap) ==
    /\ \A r \in Requests : pc[r] \in {"free", "off"}
    /\ Len(messages) + 2 <= cap
    /\ messages' = persist_turn(messages, u, sess, UserMessage, FinalText, clock)
    /\ UNCHANGED <<pc, ctx, uuids, db, loop, last, invokedKeys, returnedKeys, seen,
                   executed, nCalls, menu, clock, loaded, canon, norm, pending, http>>

\* another writer of the table stores one row of a role of its own
ForeignRow(u, sess, role) ==
    /\ \A r \in Requests : pc[r] \in {"free", "off"}
    /\ Len(messages) < MaxRows
    /\ Cardinality({i \in 1..Len(messages) : messages[i].role \in ForeignRoles}) < MaxForeign
    /\ messages' = Append(messages, AgentChatMessage(Len(messages) + 1, u, sess, role,
                                                     ForeignText, LastStamp(messages) + 1))
    /\ UNCHANGED <<pc, ctx, uuids, db, loop, last, invokedKeys, returnedKeys, seen,
                   executed, nCalls, menu, clock, loaded, canon, norm, pending, http>>

\* load_history_for_user(user, session_id, max_messages)
LoadHistory(u, sess, max_messages) ==
    /\ \E o \in load_history_for_user(messages, u, sess, max_messages) :
           loaded' = [user |-> u, session_id |-> sess, max_messages |-> max_messages,
                      table |-> messages, rows_in_order |-> o.rows_in_order,
                      history |-> o.history]
    /\ UNCHANGED <<pc, ctx, uuids, db, messages, loop, last, invokedKeys, returnedKeys,
                   seen, executed, nCalls, menu, clock, canon, norm, pending, http>>

MaxMessagesArgs == {1, 2, DefaultMaxMessages}

\* the stored rows of the conversations and the loads made from them
MemoryInit == InitWith({}, {LoopCalls}, Clocks)

MemoryNext ==
    \/ \E u \in Users, sess \in StoredSessions : EarlierRequest(u, sess, MaxRows)
    \/ \E u \in Users, sess \in StoredSessions, role \in ForeignRoles : ForeignRow(u, sess, role)
    \/ \E u \in Users, sess \in StoredSessions, n \in MaxMessagesArgs : LoadHistory(u, sess, n)

MemorySpec == MemoryInit /\ [][MemoryNext]_vars

\* one request that arrives after a conversation of up to MaxHistory rows
WindowInit == InitWith({1}, {LoopCalls}, Clocks)

WindowNext ==
    \/ \E u \in Users, sess \in Sessions : EarlierRequest(u, sess, MaxHistory)
    \/ \E r \in Requests, u \in Users, rid \in RequestIdArgs : MakeUserTools(r, u, rid)
    \/ \E r \in Requests, sess \in Sessions : ExecutorInvoke(r, sess)
    \/ \E r \in Requests : ModelFinalAnswer(r)
    \/ \E r \in Requests : EndpointFinish(r)

WindowSpec == WindowInit /\ [][WindowNext]_vars


\* ------------------------------------------------ timestamp normalization
\* timestamp strings an action may be given: naive ones, and aware ones
\* with the offsets +03:00, +02:00 and +00:00
TimestampArgs ==
    {<<1, 30, 0>>, <<1, 30, 59>>, <<1, 31, 0>>, <<1, 30, 0, 3>>, <<1, 30, 0, 2>>,
     <<0, 30, 0, 2>>, <<9, 0, 0>>, <<9, 0, 30>>, <<9, 0, 0, 2>>, <<10, 0, 0, 3>>,
     <<7, 0, 0, 0>>, <<9, 1, 0>>}

\* the signature field of a timestamp string, as add_event builds it
Canonicalize(a, b) ==
    /\ canon' = [a |-> a, b |-> b,
                 dt_a |-> _normalize_incoming_dt(parse_datetime(a)),
                 dt_b |-> _normalize_incoming_dt(parse_datetime(b)),
                 field_a |-> _canonical_local_minute(
                                 _normalize_incoming_dt(parse_datetime(a))),
                 field_b |-> _canonical_local_minute(
                                 _normalize_incoming_dt(parse_datetime(b)))]
    /\ UNCHANGED <<pc, ctx, uuids, db, messages, loop, last, invokedKeys, returnedKeys,
                   seen, executed, nCalls, menu, clock, loaded, norm, pending, http>>

CanonInit == InitWith({}, {EventCalls}, {"fine"})

CanonNext == \E a, b \in TimestampArgs : Canonicalize(a, b)

CanonSpec == CanonInit /\ [][CanonNext]_vars

\* ------------------------------------------------------ title normalization
TitleChars == {"a", "A", "b", " ", "\t"}

\* the titles of up to MaxTitleLen characters; the empty one is also None
Titles == UNION {[1..n -> TitleChars] : n \in 0..MaxTitleLen}

\* the signature of add_task and add_subject
title_sig(title) == << <<"title", normalize_title(title)>> >>

\* two titles are normalized, the first result once more, and each is put
\* in a signature; one pair in a run
NormalizeTitles(a, b) ==
    /\ norm = NoNorm
    /\ norm' = [a |-> a, b |-> b,
                title_a |-> normalize_title(a), title_b |-> normalize_title(b),
                again_a |-> normalize_title(normalize_title(a)),
                sig_a |-> title_sig(a), sig_b |-> title_sig(b)]
    /\ UNCHANGED <<pc, ctx, uuids, db, messages, loop, last, invokedKeys, returnedKeys,
                   seen, executed, nCalls, menu, clock, loaded, canon, pending, http>>

TitleInit == InitWith({}, {TaskCalls}, {"fine"})

TitleNext == norm = NoNorm /\ \E a, b \in Titles : NormalizeTitles(a, b)

TitleSpec == TitleInit /\ [][TitleNext]_vars

\* ---------------------------------------------- conversations by session
\* a request reaches a view with its POST and GET parameters
ReceiveRequest(r, POST, GET) ==
    /\ pc[r] = "tools"
    /\ ~http.query[r].received
    /\ http' = [http EXCEPT !.query[r] = [received |-> TRUE, POST |-> POST, GET |-> GET]]
    /\ UNCHANGED <<pc, ctx, uuids, db, messages, loop, last, invokedKeys, returnedKeys,
                   seen, executed, nCalls, menu, clock, loaded, canon, norm, pending>>

\* agent_endpoint line 96, then the executor as in ExecutorInvoke
SessionOfRequest(r) ==
    get_session_id_from_request(http.query[r].POST, http.query[r].GET)

\* agent_history(request) of a logged-in user
AgentHistory(u, POST, GET) ==
    /\ \E response \in agent_history(messages, u, POST, GET) :
           http' = [http EXCEPT !.asked = [user |-> u, POST |-> POST, GET |-> GET,
                                          table |-> messages, response |-> response]]
    /\ UNCHANGED <<pc, ctx, uuids, db, messages, loop, last, invokedKeys, returnedKeys,
                   seen, executed, nCalls, menu, clock, loaded, canon, norm, pending>>

\* the requests to agent_endpoint have been answered, and agent_history has
\* not been asked yet
Answered == (\A r \in Requests : pc[r] \in {"stopped", "off"}) /\ http.asked = NoAsked

SessionInit == InitWith({1}, {LoopCalls}, Clocks)

SessionNext ==
    \/ \E u \in Users, sess \in StoredSessions : EarlierRequest(u, sess, MaxRows)
    \/ \E r \in Requests, u \in Users, rid \in RequestIdArgs : MakeUserTools(r, u, rid)
    \/ \E r \in Requests, POST \in QueryDicts, GET \in QueryDicts :
           ReceiveRequest(r, POST, GET)
    \/ \E r \in Requests : http.query[r].received /\ ExecutorInvoke(r, SessionOfRequest(r))
    \/ \E r \in Requests : ModelFinalAnswer(r)
    \/ \E r \in Requests : EndpointFinish(r)
    \/ \E u \in Users, POST \in QueryDicts, GET \in QueryDicts :
           Answered /\ AgentHistory(u, POST, GET)

SessionSpec == SessionInit /\ [][SessionNext]_vars

\* ------------------------------------------ bodies interleaved at storage
\* The bodies of add_subject, add_note and add_event reach storage twice: a
\* query (exists, get, the get of get_or_create) and then a create.  Two
\* requests run in two threads, so the statements of their bodies interleave.
RaceCalls ==
    {Call("add_subject", <<<<"a">>>>),
     Call("add_note", <<<<"a">>, <<"b">>, <<"x">>>>),
     Call("add_event", <<<<"a">>, T0900, T0930, FALSE, <<>>>>)}

\* the table a create tool writes to
TableOf(tool) ==
    CASE tool = "add_subject" -> "subjects"
      [] tool = "add_note" -> "notes"
      [] tool = "add_event" -> "events"

\* run finds no key and calls fn, and fn's query is answered from d: the
\* body goes on to create exactly when a body run on d alone would
BodyCheck(r, call) ==
    /\ pc[r] = "tools"
    /\ pending[r] = NoPending
    /\ nCalls < MaxCalls
    /\ \E o \in {Invoke(ctx[r], ctx[r].user_id, call, "ok", db)} :
         /\ o.keyed /\ ~o.hit /\ ~o.raised
         /\ pending' = [pending EXCEPT ![r] =
                            [call |-> call, creates |-> o.db # db, seen_db |-> db]]
    /\ seen' = [seen EXCEPT ![r] = @ \cup {call}]
    /\ nCalls' = nCalls + 1
    /\ UNCHANGED <<pc, ctx, uuids, db, messages, loop, last, invokedKeys, returnedKeys,
                   executed, menu, clock, loaded, canon, norm, http>>

\* the detail of a result, with the id of the row that was inserted
with_id(result, id) ==
    [result EXCEPT !.detail = [i \in DOMAIN @ |-> IF @[i][1] = "id" THEN <<"id", id>>
                                                  ELSE @[i]]]

\* The rest of the body, and line 80 of run.  `then` is the body on the
\* records its query saw, `now` the body on the records of this moment.
\* When the query found its row, the body answers from what it found.  When
\* it found none, it creates: the row of `then`, under the next free id.  A
\* matching row written since the query is not seen again by add_subject;
\* the storage either has a uniqueness constraint on the table (unique: the
\* create of add_subject raises IntegrityError, get_or_create catches it and
\* gets the row) or has none, and the row is stored a second time
BodyCreate(r, unique) ==
    /\ pending[r] # NoPending
    /\ \E p \in {pending[r]} :
       \E then \in {Invoke(ctx[r], ctx[r].user_id, p.call, "ok", p.seen_db)},
          now \in {Invoke(ctx[r], ctx[r].user_id, p.call, "ok", db)} :
       \E conflict \in {p.creates /\ now.db = db /\ p.call.tool # "add_note"} :
       \E t \in {TableOf(p.call.tool)} :
       \E o \in {IF ~p.creates THEN [then EXCEPT !.db = db]
                 ELSE IF now.db # db THEN now
                 ELSE IF conflict /\ unique
                      THEN (IF p.call.tool = "add_event" THEN now
                            ELSE [then EXCEPT !.raised = TRUE, !.result = NoResult,
                                              !.cache = ctx[r].cache, !.db = db])
                 ELSE LET row == CHOOSE x \in then.db[t] : x \notin p.seen_db[t]
                          id == NextId(db[t])
                      IN [then EXCEPT !.result = with_id(@, id),
                                      !.cache = CacheStore(ctx[r].cache, then.key,
                                                           with_id(then.result, id)),
                                      !.db = [db EXCEPT ![t] = @ \cup {[row EXCEPT !.id = id]}]]} :
         /\ unique => conflict
         /\ ctx' = [ctx EXCEPT ![r].cache = o.cache]
         /\ db' = o.db
         /\ last' = [req |-> r, call |-> p.call, keyed |-> TRUE, key |-> o.key,
                     hit |-> FALSE, ran |-> TRUE, raised |-> o.raised,
                     result |-> o.result,
                     repeat |-> FALSE,
                     executed_before |-> p.call \in executed[r],
                     invoked_before |-> o.key \in invokedKeys[r],
                     returned_before |-> o.key \in returnedKeys[r],
                     cache_changed |-> o.cache # ctx[r].cache,
                     db_changed |-> o.db # db,
                     via |-> "direct", round |-> 0, retrieved |-> <<>>]
         /\ invokedKeys' = [invokedKeys EXCEPT ![r] = @ \cup {o.key}]
         /\ returnedKeys' = [returnedKeys EXCEPT ![r] =
                                IF o.raised THEN @ ELSE @ \cup {o.key}]
         /\ executed' = [executed EXCEPT ![r] =
                             IF o.raised THEN @ ELSE @ \cup {p.call}]
    /\ pending' = [pending EXCEPT ![r] = NoPending]
    /\ UNCHANGED <<pc, uuids, messages, loop, seen, nCalls, menu, clock, loaded, canon, norm, http>>

RaceInit == InitWith(Requests, {RaceCalls}, {"fine"})

RaceNext ==
    \/ \E r \in Requests, u \in Users, rid \in RequestIdArgs : MakeUserTools(r, u, rid)
    \/ \E r \in Requests, call \in menu : BodyCheck(r, call)
    \/ \E r \in Requests, unique \in BOOLEAN : BodyCreate(r, unique)

RaceSpec == RaceInit /\ [][RaceNext]_vars

\* ------------------------------------------------------------------ claims

\* the signature inside a key, and the signature of a stored event
SigOf(key) == key[2][2][2]

EventSig(ev) ==
    << <<"end", _canonical_local_minute(ev.end)>>,
       <<"start", _canonical_local_minute(ev.start)>>,
       <<"title", normalize_title(ev.title)>> >>

\* C1 as stated: within one IdempotencyContext fn is invoked at most once
\* per key, whatever the sequence of run calls.
C1_InvokedAtMostOnce ==
    (last.keyed /\ last.ran) => ~last.invoked_before

\* C1, amended: within one IdempotencyContext fn returns at most once per
\* key.  A call whose key is not cached invokes fn once; when fn returns,
\* the result is stored under the key and returned, and every later call
\* with that key returns the noop sentinel without invoking fn and without
\* touching the cache or the stored records; when fn raises, nothing is
\* stored.  The cache holds exactly the keys whose fn returned.  Two
\* add_event calls with identical valid arguments, the first of which
\* returned: one event record for their signature, the second answered noop.
C1_ReturnsAtMostOnce ==
    /\ \A r \in Requests : DOMAIN ctx[r].cache = returnedKeys[r]
    /\ (last.keyed /\ last.executed_before) =>
           (last.hit /\ last.result.status = "noop")
    /\ last.keyed =>
         /\ last.hit <=> last.returned_before
         /\ last.hit => /\ ~last.ran /\ last.result = NoopResult
                        /\ ~last.db_changed /\ ~last.cache_changed
         /\ ~last.hit => last.ran
         /\ (last.ran /\ ~last.raised) =>
                /\ ~last.returned_before
                /\ ctx[last.req].cache[last.key] = last.result
    /\ (last.call.tool = "add_event" /\ last.hit) =>
           Cardinality({ev \in db.events : /\ ev.user = ctx[last.req].user_id
                                            /\ EventSig(ev) = SigOf(last.key)}) = 1

\* two identical add_event calls in one request: one event record, the
\* first answered success and the second noop
C1_Witness ==
    /\ last.call.tool = "add_event" /\ last.repeat /\ last.hit
    /\ last.result.status = "noop"
    /\ Cardinality(db.events) = 1
    /\ ctx[last.req].cache[last.key].status = "success"

\* C2 as stated: for every action of the registry, an invocation that
\* repeats one already executed in the request, and returns, returns the
\* noop sentinel without executing the body again.
C2_EveryActionOnce ==
    (last.executed_before /\ ~last.raised) =>
        (~last.ran /\ last.result.status = "noop")

\* C3: deduplication is scoped to one request.  A cache holds only keys
\* whose fn was invoked in its own request, and a call whose key was not
\* invoked before in its own request executes the body and is not answered
\* noop, whatever the other request did with the same action and signature.
C3_RequestScoped ==
    /\ \A r \in Requests : DOMAIN ctx[r].cache \subseteq invokedKeys[r]
    /\ (last.keyed /\ ~last.invoked_before) =>
           (last.ran /\ last.result.status # "noop")

\* the same user and the same request id in two contexts: the second
\* request executes an action the first one has already executed
C3_Witness ==
    /\ last.req = 2 /\ last.keyed /\ last.ran /\ ~last.raised
    /\ last.key \in returnedKeys[1]
    /\ ctx[1].user_id = ctx[2].user_id /\ ctx[1].request_id = ctx[2].request_id

\* C4 as stated: every request handled by agent_endpoint gets a context of
\* its own, bound to its user, and runs its dispatch loop with it.
C4_EndpointBuildsContext ==
    \A r \in Requests :
        loop[r].user # 0 => (pc[r] # "typeerror" /\ ctx[r].user_id = loop[r].user)

IsRawStop(text) == startswith(text, <<RawStopText[1]>>)

\* C5 as stated: after a forced stop at the iteration ceiling, neither the
\* reply nor the persisted model turn holds the raw iteration-limit text.
C5_NeutralReply ==
    /\ \A r \in Requests : pc[r] = "stopped" => ~IsRawStop(loop[r].reply)
    /\ \A i \in 1..Len(messages) : messages[i].role = "ai" => ~IsRawStop(messages[i].content)

\* C6: a request runs at most MaxIterations rounds.  The iteration counter
\* never passes the ceiling, no action is executed in a later round, and at
\* the ceiling the model is not asked again.
C6_BoundedRounds ==
    /\ \A r \in Requests :
         /\ loop[r].iterations <= MaxIterations
         /\ pc[r] = "executing" => loop[r].iterations < MaxIterations
         /\ (pc[r] = "reasoning" /\ loop[r].iterations >= MaxIterations) =>
                (~ENABLED ModelRequestsActions(r) /\ ~ENABLED ModelFinalAnswer(r))
    /\ last.round <= MaxIterations

\* a request whose model asked for actions in every round, force-stopped
\* after the third
C6_Witness ==
    \E r \in Requests :
        /\ pc[r] = "stopped" /\ loop[r].iterations = MaxIterations
        /\ loop[r].output = RawStopText
        /\ last.req = r /\ last.round = MaxIterations

\* C7 as stated: a failure raised inside an action body never leaves the
\* action and never aborts the request.
C7_FailureContained ==
    /\ ~last.raised
    /\ \A r \in Requests : pc[r] # "aborted"

\* C8: when fn raises during run, nothing is stored under the key and the
\* cache is unchanged, and a later call with that key invokes fn again.
C8_FailureNotCached ==
    /\ (last.keyed /\ last.raised) =>
           (~last.cache_changed /\ last.key \notin DOMAIN ctx[last.req].cache)
    /\ (last.keyed /\ last.invoked_before /\ ~last.returned_before) =>
           (last.ran /\ ~last.hit)

\* a call whose fn raised before, repeated: fn is invoked again and returns
C8_Witness ==
    /\ last.keyed /\ last.invoked_before /\ ~last.returned_before
    /\ last.ran /\ ~last.raised /\ last.repeat

SubjectExists(user, title) ==
    \E sb \in db.subjects : sb.user = user /\ sb.title = title

\* C9 as stated: an add_note call made while its subject exists is
\* suppressed as noop only when an earlier execution created the note, never
\* because an earlier execution ended in 'Subject not found'.
C9_ErrorNotRecorded ==
    (/\ last.call.tool = "add_note" /\ last.hit
     /\ SubjectExists(ctx[last.req].user_id, last.call.vals[1])) =>
        ctx[last.req].cache[last.key].status = "success"

ValidArgs(call) ==
    CASE call.tool = "add_task" -> call.vals[2] \in TaskTypes
      [] call.tool = "add_event" ->
            /\ call.vals[1] # <<>>
            /\ parse_datetime(call.vals[2]) # NoneDt /\ parse_datetime(call.vals[3]) # NoneDt
      [] OTHER -> TRUE

IsArgumentError(result) ==
    result.msg \in {"Invalid task type. Please choose 'daily' or 'long_term'.",
                    "[ERROR] title, start, end are required"}

\* C10 as stated: a call with corrected arguments that follows an argument
\* error of the same action executes the body; it is never answered noop
\* on account of the call that was answered with the argument error.
C10_CorrectedArgsRun ==
    (last.keyed /\ last.hit /\ ValidArgs(last.call)) =>
        ~IsArgumentError(ctx[last.req].cache[last.key])

CreateTools == {"add_task", "add_event", "add_subject", "add_note"}

\* what a create call with valid arguments asks storage for, titles taken
\* up to normalization and times to the minute
DomainEffect(call) ==
    LET a == call.vals IN
    CASE call.tool = "add_task" -> <<normalize_title(a[1]), a[2]>>
      [] call.tool = "add_event" ->
            <<normalize_title(a[1]),
              _canonical_local_minute(_normalize_incoming_dt(parse_datetime(a[2]))),
              _canonical_local_minute(_normalize_incoming_dt(parse_datetime(a[3]))),
              a[4]>>
      [] call.tool = "add_subject" -> <<normalize_title(a[1])>>
      [] call.tool = "add_note" ->
            <<normalize_title(a[1]), normalize_title(a[2]), normalize_body(a[3])>>
      [] OTHER -> <<>>

\* C11 as stated: a create call with valid arguments is suppressed as a
\* duplicate only when the request already executed a call of that action
\* with the same domain effect; a call that differs from every executed one
\* in a field that changes the effect has another signature and executes.
C11_DistinctEffectsRun ==
    (/\ last.keyed /\ last.hit /\ ValidArgs(last.call)
     /\ \A c \in executed[last.req] : c.tool = last.call.tool => ValidArgs(c)) =>
        \E c \in executed[last.req] :
            c.tool = last.call.tool /\ DomainEffect(c) = DomainEffect(last.call)

\* C12 as stated: load_history_for_user returns the turns of a session in
\* the order in which they were persisted, the human turn of a persist_turn
\* call before its model turn, whatever stamps the two rows were given.
C12_PersistedOrder ==
    \A i, j \in 1..Len(loaded.history) :
        i < j => loaded.history[i].id < loaded.history[j].id

\* the rows of a session in the order in which they were stored
SessionRows(rows, user, session_id) ==
    SelectSeq(rows, LAMBDA row : row.user = user /\ row.session_id = session_id)

Min(a, b) == IF a < b THEN a ELSE b

\* C13 as stated: load_history_for_user(user, session, max_messages) returns
\* exactly the min(max_messages, total) most recent turns of the session,
\* oldest of the kept turns first: never more than max_messages, and never
\* an older turn in place of a newer one.
C13_MostRecentTurns ==
    LET turns == _rows_to_chat_history(
                     SessionRows(loaded.table, loaded.user, loaded.session_id))
    IN loaded.history = last_messages(turns, Min(loaded.max_messages, Len(turns)))

\* the requests that complete in a step
Completing == {r \in Requests : pc[r] # "stopped" /\ pc'[r] = "stopped"}

\* C14: every step leaves the stored turns in place and adds two turns for
\* each request that completes in it, the human turn with the user's message
\* and then the model turn with the reply, both of the request's user and
\* session; so the stored sequence only grows, by 2 per completed request.
C14_AppendOnly ==
    /\ [](Len(messages) = 2 * Cardinality({r \in Requests : pc[r] = "stopped"}))
    /\ [][/\ Len(messages') = Len(messages) + 2 * Cardinality(Completing)
          /\ SubSeq(messages', 1, Len(messages)) = messages
          /\ \A r \in Completing :
               LET human == messages'[Len(messages) + 1]
                   ai == messages'[Len(messages) + 2]
               IN /\ human.role = "human" /\ human.content = UserMessage
                  /\ ai.role = "ai" /\ ai.content = loop'[r].reply
                  /\ human.user = loop[r].user /\ ai.user = loop[r].user
                  /\ human.session_id = loop[r].session_id
                  /\ ai.session_id = loop[r].session_id]_vars

\* two requests completed one after the other: four stored turns
C14_Witness ==
    /\ \A r \in Requests : pc[r] = "stopped"
    /\ Len(messages) = 4
    /\ messages[3].role = "human" /\ messages[4].role = "ai"

\* the requests whose executor was invoked and that have not stored their
\* turn yet
InLoop == {r \in Requests : pc[r] \in {"reasoning", "executing", "responding"}}

\* C15 as stated: the context given to the model holds at most K = 6 prior
\* turns (single messages), the 6 most recent of the loaded history, and
\* K <= N = 40.
C15_WindowOfK ==
    /\ WindowSize <= DefaultMaxMessages
    /\ \A r \in InLoop :
         /\ Len(loop[r].chat_history) <= WindowSize
         /\ loop[r].chat_history = last_messages(loop[r].memory.chat_memory, WindowSize)

\* C15, amended: the window size K = 6 counts exchanges.  The context holds
\* at most 2K = 12 prior turns, the 12 most recent of the loaded history in
\* their order, the loaded history is a result of load_history_for_user for
\* the request's user and session with the cap N = 40, and 2K <= N.
C15_WindowOfTwoK ==
    /\ 2 * WindowSize <= DefaultMaxMessages
    /\ \A r \in InLoop :
         LET hist == loop[r].memory.chat_memory
             context == loop[r].chat_history
             skipped == Len(hist) - Len(context)
         IN /\ loop[r].memory.k = WindowSize
            /\ Len(hist) <= DefaultMaxMessages
            /\ \E o \in load_history_for_user(messages, loop[r].user, loop[r].session_id,
                                              DefaultMaxMessages) : o.history = hist
            /\ Len(context) = Min(2 * WindowSize, Len(hist))
            /\ \A i \in 1..Len(context) : context[i] = hist[skipped + i]

\* a request whose session holds 14 turns: the model is given the last 12
C15_Witness ==
    \E r \in InLoop :
        /\ Len(loop[r].memory.chat_memory) = 14
        /\ Len(loop[r].chat_history) = 12
        /\ loop[r].chat_history[1] = loop[r].memory.chat_memory[3]

KnownRoles == {"human", "ai", "system"}

\* C16: the history rebuilt from rows is the subsequence of the rows whose
\* role is human, ai or system, in the rows' order, each message with the
\* type and the content of its row; rows of any other role are skipped and
\* do not stop the conversion.
C16_UnknownRolesSkipped ==
    LET rows == loaded.rows_in_order
        known == {i \in 1..Len(rows) : rows[i].role \in KnownRoles}
        place(i) == Cardinality({j \in known : j <= i})
    IN /\ Len(loaded.history) = Cardinality(known)
       /\ \A i \in known :
            /\ loaded.history[place(i)].type = rows[i].role
            /\ loaded.history[place(i)].content = rows[i].content
            /\ loaded.history[place(i)].id = rows[i].id

\* a load whose rows hold one of an unknown role before a known one: the
\* later rows are all in the history
C16_Witness ==
    LET rows == loaded.rows_in_order IN
    /\ \E i, j \in 1..Len(rows) :
           i < j /\ rows[i].role \notin KnownRoles /\ rows[j].role \in KnownRoles
    /\ Len(loaded.history) = Len(rows) - 1

\* C17: a call is answered with the noop sentinel exactly when its key was
\* stored in the request's cache by an earlier call that returned.  A body
\* that ran never yields the sentinel or any result of kind noop, no cached
\* result is of kind noop, and the sentinel tells the model not to call the
\* tool again.
C17_NoopIffCached ==
    /\ (last.req # 0 /\ ~last.raised) =>
         /\ last.result.status = "noop" <=> (last.keyed /\ last.returned_before)
         /\ last.result.status = "noop" <=> last.hit
         /\ last.result.status = "noop" =>
              /\ last.result = NoopResult
              /\ last.result.msg =
                   "This exact action was already executed in this request. Do NOT call this tool again."
         /\ last.ran => (last.result # NoopResult /\ last.result.status # "noop")
    /\ \A r \in Requests : \A k \in DOMAIN ctx[r].cache :
           ctx[r].cache[k].status # "noop" /\ ctx[r].cache[k] # NoopResult

\* add_subject repeated in a request: the first call stored 'Subject
\* created', the second is answered noop
C17_Witness ==
    /\ last.call.tool = "add_subject" /\ last.hit /\ last.result = NoopResult
    /\ ctx[last.req].cache[last.key].msg = "Subject created."

StatusKinds == {"success", "error", "noop"}

\* C18 as stated: every result an action returns is a status payload whose
\* status kind is success, error or noop, for every action of the registry
\* and every outcome.
C18_StatusPayload ==
    (last.req # 0 /\ ~last.raised) => last.result.status \in StatusKinds

ExistingMatchTexts == {"Event already exists.", "Subject already exists."}

\* C19 as stated: a create whose body runs in a request after another
\* request of the same user executed the same create stores no second record
\* and reports an existing match, for each of the four create actions.
C19_StorageIdempotent ==
    (/\ last.call.tool \in CreateTools /\ last.ran /\ ~last.raised
     /\ \E q \in Requests \ {last.req} :
            last.call \in executed[q] /\ ctx[q].user_id = ctx[last.req].user_id) =>
        (~last.db_changed /\ last.result.msg \in ExistingMatchTexts)

\* C20 as stated: the canonical fields of two timestamps are equal exactly
\* when the timestamps denote instants in the same minute, whatever their
\* seconds and their offset notation, the two 01:30 of the day daylight
\* saving time ends included.
C20_SameMinuteSameField ==
    (canon.dt_a # NoDt /\ canon.dt_b # NoDt) =>
        (canon.field_a = canon.field_b <=> canon.dt_a \div 60 = canon.dt_b \div 60)

Lower(c) == CASE c = "A" -> "a" [] c = "B" -> "b" [] OTHER -> c

RECURSIVE WordsOf(_, _)
\* the words of a title, in lower case: its maximal runs of characters
\* that are not whitespace
WordsOf(s, word) ==
    IF s = <<>> THEN (IF word = <<>> THEN <<>> ELSE <<word>>)
    ELSE IF Head(s) \in WS
         THEN (IF word = <<>> THEN <<>> ELSE <<word>>) \o WordsOf(Tail(s), <<>>)
         ELSE WordsOf(Tail(s), Append(word, Lower(Head(s))))

\* the two titles differ at most in leading and trailing whitespace, in the
\* length of whitespace runs and in letter case
SameUpToSpaceAndCase(a, b) == WordsOf(a, <<>>) = WordsOf(b, <<>>)

C22_EmptyRetrievalReported ==
    (last.call.tool = "search_knowledge" /\ ~last.raised) =>
        /\ last.result.msg \in {"No relevant notes found.", "Relevant notes:"}
        /\ last.retrieved = <<>> =>
              /\ last.result.msg = "No relevant notes found."
              /\ last.result.detail = <<>>
        /\ last.result.msg = "Relevant notes:" =>
              /\ Len(last.retrieved) >= 1
              /\ last.result.detail = << <<"docs", last.retrieved>> >>
        /\ last.result.status # "success"

C22_Witness ==
    /\ last.call.tool = "search_knowledge"
    /\ ~last.raised
    /\ last.retrieved = <<>>
    /\ last.result.msg = "No relevant notes found."
    /\ last.repeat

\* two stored subjects of one user with one title, or two stored events that
\* agree in every field get_or_create looks up
DoubleCreated ==
    \/ \E x, y \in db.subjects : x.id # y.id /\ x.user = y.user /\ x.title = y.title
    \/ \E x, y \in db.events :
          /\ x.id # y.id /\ x.user = y.user /\ x.title = y.title
          /\ x.start = y.start /\ x.end = y.end /\ x.all_day = y.all_day

\* C23: a create action's existence check and its creation are one atomic
\* storage step: while a body stands between the two, no other request
\* writes, and no subject or event is created twice by concurrent requests
C23_CheckThenCreateAtomic ==
    /\ \A r \in Requests : pending[r] # NoPending => db = pending[r].seen_db
    /\ ~DoubleCreated

\* C24: a cache entry is read-only after creation.  In every step the keys
\* cached for a request stay cached with the value first stored under them,
\* and a call answered noop leaves every cache and every stored record as
\* they were.
C24_CacheEntriesReadOnly ==
    [][/\ \A r \in Requests : \A k \in DOMAIN ctx[r].cache :
             /\ k \in DOMAIN ctx'[r].cache
             /\ ctx'[r].cache[k] = ctx[r].cache[k]
       /\ (nCalls' # nCalls /\ last'.result.status = "noop") =>
             (ctx' = ctx /\ db' = db)]_vars

\* a request whose cache holds two entries, after a call answered noop
C24_Witness ==
    /\ last.hit /\ last.result.status = "noop"
    /\ Cardinality(DOMAIN ctx[last.req].cache) >= 2
    /\ db.notes # {}

\* the stored rows of a user's session, as a set
RowsOf(table, user, session_id) ==
    {table[i] : i \in {j \in 1..Len(table) : /\ table[j].user = user
                                              /\ table[j].session_id = session_id}}

\* the request has been answered and its turn is the last two stored rows
Persisted(r) == pc[r] = "stopped" /\ http.query[r].received

\* History is read and written per (user, session): the history that
\* load_history_for_user gave the request's memory holds rows of the
\* request's user and session only, the turn the request persisted carries
\* that user and session, and agent_history answers with exactly the rows
\* of its user and session.
HistoryIsolated ==
    /\ \A r \in Requests : http.query[r].received =>
          \A i \in 1..Len(loop[r].memory.chat_memory) :
              \E row \in RowsOf(messages, loop[r].user, loop[r].session_id) :
                  row.id = loop[r].memory.chat_memory[i].id
    /\ \A r \in Requests : Persisted(r) =>
          /\ loop[r].user = ctx[r].user_id
          /\ loop[r].session_id = SessionOfRequest(r)
          /\ \A i \in {Len(messages) - 1, Len(messages)} :
                 /\ messages[i].user = loop[r].user
                 /\ messages[i].session_id = loop[r].session_id
    /\ http.asked # NoAsked =>
          /\ {http.asked.response.rows[i] : i \in 1..Len(http.asked.response.rows)}
                = RowsOf(http.asked.table, http.asked.user, http.asked.response.session_id)
          /\ Len(http.asked.response.messages)
                = Cardinality(RowsOf(http.asked.table, http.asked.user,
                                     http.asked.response.session_id))
          /\ http.asked.response.session_id
                = get_session_id_from_request(http.asked.POST, http.asked.GET)

\* every request received by a view, with the session it worked on
SessionChoices ==
    {[POST |-> http.query[r].POST, GET |-> http.query[r].GET,
      session_id |-> loop[r].session_id] : r \in {q \in Requests : Persisted(q)}}
    \cup (IF http.asked = NoAsked THEN {}
          ELSE {[POST |-> http.asked.POST, GET |-> http.asked.GET,
                 session_id |-> http.asked.response.session_id]})

\* C25 as stated: history is isolated per (user, session); a request
\* without a session_id works on the 'default' session; a session_id sent
\* by POST takes precedence over one sent by GET.
C25_SessionIsolation ==
    /\ HistoryIsolated
    /\ \A c \in SessionChoices :
          /\ (~has_key(c.POST, "session_id") /\ ~has_key(c.GET, "session_id")) =>
                 c.session_id = DEFAULT_SESSION_ID
          /\ (has_key(c.POST, "session_id") /\ has_key(c.GET, "session_id")) =>
                 c.session_id = value_of(c.POST, "session_id")

\* C25, amended: history is isolated per (user, session); a session_id that
\* is empty counts as not sent; a request without a session_id works on the
\* 'default' session; a non-empty session_id sent by POST takes precedence
\* over one sent by GET, and without one the non-empty session_id sent by
\* GET is used.
C25_SessionIsolationNonEmpty ==
    /\ HistoryIsolated
    /\ \A c \in SessionChoices :
          /\ (~truthy(c.POST, "session_id") /\ ~truthy(c.GET, "session_id")) =>
                 c.session_id = DEFAULT_SESSION_ID
          /\ truthy(c.POST, "session_id") =>
                 c.session_id = value_of(c.POST, "session_id")
          /\ (~truthy(c.POST, "session_id") /\ truthy(c.GET, "session_id")) =>
                 c.session_id = value_of(c.GET, "session_id")
          /\ c.session_id # ""

\* user 1 asks for the history of session s1, sent by POST with another
\* session sent by GET, after a request of theirs in s1 that was given the
\* earlier turn of s1 as memory; the table also holds a turn of user 2 in s1
C25_Witness ==
    /\ http.asked.user = 1
    /\ http.asked.POST = {<<"session_id", "s1">>} /\ http.asked.GET = {<<"session_id", "s2">>}
    /\ Len(http.asked.response.messages) = 4
    /\ \E i \in 1..Len(messages) : messages[i].user = 2 /\ messages[i].session_id = "s1"
    /\ Persisted(1) /\ loop[1].user = 1 /\ loop[1].session_id = "s1"
    /\ Len(loop[1].memory.chat_memory) = 2

\* the user a key was made for
UserOf(key) == key[2][4][2]

\* the rows a read listed in its result
RowsListed(result) ==
    IF result.detail # <<>> /\ result.detail[1][1] = "rows" THEN result.detail[1][2] ELSE {}

\* C26: the tools of make_user_tools(user, ...) are bound to that user.  In
\* every step, the records a call stores are owned by the user of its
\* context; the rows it lists and the documents it retrieves are that
\* user's; a call is answered noop only for a key of its own user that its
\* own request stored, and 'Subject already exists.' only for a subject of
\* its own user; a first call of a request is never held back by what
\* another user's request stored or cached.
C26_BoundToUser ==
    [][nCalls' # nCalls =>
         \E u \in {ctx[last'.req].user_id} :
           /\ \A row \in (db'.tasks \ db.tasks) \cup (db'.subjects \ db.subjects)
                         \cup (db'.events \ db.events) : row.user = u
           /\ \A note \in db'.notes \ db.notes :
                  \E sb \in db'.subjects : sb.id = note.subject /\ sb.user = u
           /\ \A row \in RowsListed(last'.result) : row.user = u
           /\ last'.call.tool = "get_tasks" /\ ~last'.raised =>
                  RowsListed(last'.result) = {tk \in db.tasks : tk.user = u}
           /\ \A i \in 1..Len(last'.retrieved) : last'.retrieved[i].user_id = u
           /\ last'.result.detail # <<>> /\ last'.result.detail[1][1] = "docs" =>
                  \A i \in 1..Len(last'.result.detail[1][2]) :
                      last'.result.detail[1][2][i].user_id = u
           /\ last'.hit => /\ UserOf(last'.key) = u
                           /\ last'.key \in returnedKeys[last'.req]
           /\ \A k \in DOMAIN ctx'[last'.req].cache : UserOf(k) = u
           /\ last'.result.msg = "Subject already exists." =>
                  \E sb \in db.subjects : sb.user = u /\ sb.title = last'.call.vals[1]
           /\ (last'.call.tool \in {"add_task", "add_subject"} /\ ~last'.raised
               /\ ~last'.repeat
               /\ ~\E sb \in db.subjects : sb.user = u /\ sb.title = last'.call.vals[1]) =>
                  last'.db_changed]_vars

\* two requests of different users that passed the same request id: user 2
\* lists their one task while a task of user 1 with the same title is stored
C26_Witness ==
    /\ ctx[1].user_id = 1 /\ ctx[2].user_id = 2
    /\ ctx[1].request_id = ctx[2].request_id
    /\ last.req = 2 /\ last.call.tool = "get_tasks"
    /\ Cardinality(RowsListed(last.result)) = 1
    /\ Cardinality(db.tasks) = 2

\* the instants an add_event call was given
GivenStart(call) == _normalize_incoming_dt(parse_datetime(call.vals[2]))

GivenEnd(call) == _normalize_incoming_dt(parse_datetime(call.vals[3]))

\* the event an add_event call created or found: the one of its signature
EventsOf(key) == {ev \in db.events : EventSig(ev) = SigOf(key)}

\* C27 as stated: every event created through add_event ends strictly after
\* it starts.  Not all-day and the given end not after the given start: the
\* stored end is the start plus one hour.  All-day: the stored start is the
\* local midnight of the start's date and the stored end the following
\* local midnight.  The signature is computed from the adjusted values.
C27_EndAfterStart ==
    /\ \A ev \in db.events : ev.start < ev.end
    /\ (last.call.tool = "add_event" /\ last.keyed /\ last.ran /\ ~last.raised) =>
          /\ EventsOf(last.key) # {}
          /\ \A ev \in EventsOf(last.key) :
                /\ (~ev.all_day /\ GivenEnd(last.call) <= GivenStart(last.call)) =>
                       /\ ev.start = GivenStart(last.call)
                       /\ ev.end = ev.start + HourSeconds
                /\ (~ev.all_day /\ GivenEnd(last.call) > GivenStart(last.call)) =>
                       /\ ev.start = GivenStart(last.call)
                       /\ ev.end = GivenEnd(last.call)
                /\ ev.all_day =>
                       /\ wall(ev.start) % DaySeconds = 0
                       /\ wall(ev.start) <= wall(GivenStart(last.call))
                       /\ wall(GivenStart(last.call)) < wall(ev.start) + DaySeconds
                       /\ wall(ev.end) = wall(ev.start) + DaySeconds

====
